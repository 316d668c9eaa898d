SPECIFICATION Spec
CONSTANT FieldsLength = 2
CONSTANT Programs <- MCPrograms
CHECK_DEADLOCK FALSE
INVARIANTS ComputesAsWritten OperandsDefined CodeIsTotal
