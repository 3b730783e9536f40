SPECIFICATION Spec
INVARIANT OneOwner
