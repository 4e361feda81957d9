SPECIFICATION MCSpec
CONSTANTS
  InverseAtxMax = 3
  TestModes = {"fmr", "fmr1", "fmr2", "hashes", "org", "cwiki", "wiki", "vimwiki", "html", "txt2tags", "viki",
    "dokuwiki", "inverseAtx", "vimoutliner", "thevimoutliner", "taskpaper", "markdown", "pandoc",
    "rest", "asciidoc"}
  WideModes = {"fmr"}
  InitLines = 3
  ClipLines = 2
  MaxSteps = 1
  Bodies <- MCBodies
  Clips <- MCClips
  Edits <- MCEdits
  AAMLEFT = TRUE
  MaxLines = 16
  MaxClip = 12
  MaxLevel = 9
INVARIANTS VoomTypeOK Verified HooksAssert
\* The bound on steps ends a behaviour.
CHECK_DEADLOCK FALSE
