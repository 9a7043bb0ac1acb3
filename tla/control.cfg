CONSTANTS
    Names = {"ann", "b-b", ""}
    IllFormed = {"b-b"}
    Nodes = {1, 2, 3}
    Similar = {1}
    MaxAdds = 2
    MaxLosses = 1
SPECIFICATION FairSpec
CHECK_DEADLOCK FALSE
INVARIANTS
    TypeOK
    ClientFollowsConnection
PROPERTIES
    AddedIsShown
    AnnouncementsReported
