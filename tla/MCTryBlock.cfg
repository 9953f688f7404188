SPECIFICATION TrySpec
CONSTANTS
    Functions = {f1, f2}
    Plain = {e1, e2}
    Nil = Nil
    None = None
    Message = e1
    FunctionErrors = FALSE
    Debugs <- AnyDebug
CHECK_DEADLOCK FALSE
INVARIANTS Balanced
PROPERTIES ImplementsStatement
