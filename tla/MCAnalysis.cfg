\* Texts of up to four characters; parses of three tokens or six rule events.
CONSTANTS
    Opened <- MCOpened
    Inserted <- MCInserted
    Parsed <- MCParsed
    Ruled <- MCRuled
    Legend <- MCLegend
    Convention <- MCConvention
    Override <- MCOverride
    Late <- MCLate
    Rule <- MCRule
    Outlined <- MCOutlined
    NoToken = NoToken
    MaxText = 4
    MaxLex = 3
    MaxRules = 6
    MaxDepth = 2
SPECIFICATION Spec
INVARIANTS
    InSync RangesCoverTheirText TokensOnTheirText ReconciledIsContract
    HighlightsAreTokens OutlineIsNesting CursorIsUnderstood
