SPECIFICATION Spec
CONSTANTS
    c1 = c1
    c2 = c2
    r1 = r1
    Index = "index.html"
    Here = ""
    Up = ".."
    NoQuery = "none"
    Dotted <- MCDotted
    HTMLEnds <- MCHTMLEnds
    Safe <- MCSafe
    URLs <- MCURLs
    HTML <- MCHTML
    Parsed <- MCParsed
    LinksOf <- MCLinksOf
    OldMirrors <- MCOldMirrors
    Crawls <- MCCrawls
    Passes <- MCPasses
    MaxFetches = 2
    Off = Off
SYMMETRY Symmetry
INVARIANTS
    TypeOK
    WholeFiles
    LinksLead
PROPERTIES
    NoStepBack
    PassSettles
