-------------------------- MODULE MCUdpAssociation --------------------------
\* UdpAssociation for TLC: the constants are model values.  Destinations and
\* descriptors are interchangeable, but the run checks a liveness property, for
\* which TLC's symmetry reduction is not sound.
EXTENDS UdpAssociation
=============================================================================
