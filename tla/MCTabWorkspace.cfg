\* Two files: one of several statements, one longer than the preview.
SPECIFICATION Spec
CONSTANTS
  Files = {many, huge}
  Scripts = {many}
  Long = {huge}
  Scratch = Scratch
  None = None
  MaxCopies = 2
  MaxPosts = 2
  MaxRing = 1
  MaxSteps = 6
INVARIANTS TabsAgree FilesKeepTheirOwnText
CHECK_DEADLOCK FALSE
