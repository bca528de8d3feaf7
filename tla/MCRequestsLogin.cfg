SPECIFICATION Spec
CONSTANTS
    Hosts <- MCHosts
    Addresses <- MCAddresses
    Domains <- MCDomains
    PortLabel <- MCPortLabel
    Trusted <- MCTrusted
    Passwords = {"p1", "p2"}
    Args <- MCArgs
    None = None
PROPERTY OneLoginForAll
