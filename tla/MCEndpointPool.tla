--------------------------- MODULE MCEndpointPool ---------------------------
EXTENDS EndpointPool

\* Every request allows one retry.
OneToOne == <<1, 1>>
=============================================================================
