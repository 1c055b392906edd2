SPECIFICATION FISpec
CONSTANTS
    Characters = {"d", "x", "/", "*", "?", "{", "}", "[", "]", ","}
    PatternLists <- InnerPatterns
    TreePaths <- SmallTree
INVARIANT SameFileSet
