\* service_ip_cidr_to_cluster_dns_ip against the service network plus 10.
CONSTANTS
    V4Addrs <- MCV4Addrs
    V4Prefixes <- MCV4Prefixes
    V6Addrs <- MCV6Addrs
    V6Prefixes <- MCV6Prefixes
SPECIFICATION DnsSpec
INVARIANT DnsIpMatchesReference
