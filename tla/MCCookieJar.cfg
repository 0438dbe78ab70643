SPECIFICATION Spec
CONSTANTS
    Hosts <- SiteHosts
    Domains <- SiteDomains
    Names = {bumshi_access}
    Payloads <- SomePayloads
    AccessCookie = bumshi_access
    Absent = Absent
PROPERTY SitesGetTheirOwn
PROPERTY ServerAndScriptAgree
