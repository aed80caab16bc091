SPECIFICATION Spec
CONSTANTS
    p = p
    q = q
    tenant = tenant
    Templates <- MCTemplates
    Tenants = {tenant}
    Contents = {c1, c2}
    Editors = {e1, e2}
    Consumers = {r1}
    NoTemplate = NoTemplate
    NoContent = NoContent
    NoEntry = NoEntry
    Seeds <- MCSeeds
    MaxVersions = 2
    MaxOps = 3
INVARIANT TypeOK
INVARIANT OnePublished
INVARIANT OnlyLateFillsAreStale
PROPERTY CacheConverges
