SPECIFICATION Spec
CONSTANTS
    Main = Main
    Nobody = Nobody
    Handlers = {h1, h2}
    Streams = {e1, e2}
    Disconnects = FALSE
INVARIANTS
    RefusedOnlyWhileStreaming
