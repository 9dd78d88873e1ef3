SPECIFICATION Spec
CONSTANTS
    poor = poor
    good = good
    ap1 = ap1
    Empty = Empty
    Dash = Dash
    Off = Off
    Blank = Blank
    None = None
    Contents <- MCContents
    Gone <- MCGone
    Selects = {"quality", "ap"}
    Ranges = {"signal"}
    Value <- MCValue
    Order <- MCOrder
    Views = {"table", "grid"}
    View0 = "table"
    Cap <- MCCap
    Bounds <- MCBounds
    Tiles = {"poor_signal", "total"}
    Clicks <- MCClicks
    Poor <- MCPoor
    Ap = "ap"
    Tabs = {"health"}
    Polls = {1, 2}
    Others = {3}
    MaxChanges = 1
    MaxFaults = 1
INVARIANTS
    SelectsTellFilter
    ShownIsFiltered
    TilesCountRows
    
    DrillKeepsEntity
PROPERTIES
    FreshInTheEnd
