SPECIFICATION Spec
CONSTANTS
    Pipes = {p1, p2}
    None = None
INVARIANTS HandlerSeesModule
