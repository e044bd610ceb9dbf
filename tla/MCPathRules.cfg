SPECIFICATION Spec
CONSTANT MaxFolders = 2
INVARIANT OnlyNamedDisabled
