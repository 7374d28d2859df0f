SPECIFICATION Spec
PROPERTY InvalidContextNoEffect
