CONSTANTS
    CommandLines <- MCCommandLines
    OptionLists <- MCOptionLists
    Upper <- MCUpper
    Length <- MCLength
    Unparsable = {"bad"}
    Stateless = {"none"}
    Looping = {"loop"}
SPECIFICATION Spec
INVARIANTS
    ReportedIsBuilt
    HeaderMatchesArtifact
    EachLabelItsOwn
    OnlyTheseStop
PROPERTIES
    ObjectNotLost
