SPECIFICATION FairSpec
CONSTANTS
    Main = Main
    Nobody = Nobody
    Handlers = {h1, h2}
    Streams = {e1, e2}
    Disconnects = TRUE
INVARIANTS
    TypeOK
    StreamsReachable
PROPERTIES
    AnsweredUnlessOvertaken
