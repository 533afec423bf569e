CONSTANT Fill <- MCFill

SPECIFICATION Spec

INVARIANT WfiIsWfi
