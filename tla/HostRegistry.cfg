SPECIFICATION DiscoverySpec
CONSTANTS
    IPs = {ip1, ip2}
    Infos = {blank, edited}
    Blank = blank
    NoRow = NoRow
    Circuits = {tab1, tab2}
INVARIANTS TypeOK
PROPERTIES NoResurrection InsertNeverOverwrites DeleteOnlyConfirmed TargetsFollow
