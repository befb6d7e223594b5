SPECIFICATION Spec
CONSTANT N = 4
INVARIANTS BoundedBypass EvenRotation
PROPERTY NoneOnlyWhenAllDown
