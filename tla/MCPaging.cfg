CONSTANTS
    IndexBits = 2
    PageBits = 4
    TABLES = 2
    PD_ADDR <- MCPdAddr
    PT_ADDR <- MCPtAddrFn
    MapArgs <- MCMapArgs
    AccessPages <- MCAccessPages
SPECIFICATION Spec
INVARIANTS TypeOK TlbCoherent
PROPERTY PagingRefinement
