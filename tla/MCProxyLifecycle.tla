-------------------------- MODULE MCProxyLifecycle --------------------------
\* ProxyLifecycle for TLC: view models are model values.
EXTENDS ProxyLifecycle
=============================================================================
