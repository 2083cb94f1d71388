--------------------------- MODULE MCClusterDnsIp ---------------------------
EXTENDS ClusterDnsIp

\* Service networks of the sizes EKS allows, and two it does not (/28 and
\* a host address), so that the reference's precondition matters.
MCV4Addrs == {<<10, 100, 0, 0>>, <<172, 20, 0, 0>>, <<192, 168, 4, 0>>,
              <<10, 0, 0, 16>>}
MCV4Prefixes == {12, 16, 22, 24, 28}

\* IPv6 networks whose zero groups fall at the start, in the middle, at the
\* end or nowhere, so that every placement of "::" is produced, and the
\* all-zero network "::".
MCV6Addrs ==
    {[i \in 1..8 |-> IF i = 8 THEN 0 ELSE IF i \in z THEN 0 ELSE
                     <<64816, 7251, 24458, 1, 4660, 43981, 16>>[i]] :
        z \in SUBSET (1..7)}
MCV6Prefixes == {64, 108}
=============================================================================
