CONSTANT Fill <- MCFill

SPECIFICATION Spec

INVARIANT OneRow
INVARIANT DecodesAsAssembled
