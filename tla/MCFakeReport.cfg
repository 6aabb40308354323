SPECIFICATION FSpec
CONSTANTS
    Names <- MCNames
    Infos <- MCInfos
    Column = 3
    MaxResults = 2
INVARIANTS
    TotalsAgree
    ScopesMeetLines
    FooterMeansWhole
    NamesFit
