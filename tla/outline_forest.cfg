SPECIFICATION MCForestSpec
CONSTANTS
  InverseAtxMax = 3
  TestModes = {"fmr", "hashes", "org", "cwiki", "wiki", "vimwiki", "html", "txt2tags", "viki",
    "dokuwiki", "inverseAtx", "vimoutliner", "taskpaper", "markdown", "pandoc",
    "rest", "asciidoc"}
  WideModes = {"fmr"}
  InitLines = 3
  ClipLines = 2
  MaxSteps = 1
  Bodies <- MCBodies
  Clips <- MCClips
  Edits <- MCEdits
  AAMLEFT = FALSE
  MaxLines = 16
  MaxClip = 12
  MaxLevel = 9
INVARIANT InsertedIsParsed
PROPERTY RefinesForest
\* The bound on steps ends a behaviour.
CHECK_DEADLOCK FALSE
