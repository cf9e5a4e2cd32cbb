SPECIFICATION Spec
CONSTANTS
  Home <- HomeDef
  Page = "html_ls.html"
  Trees <- TreesDef
  Hidden = {".", "..", ".h"}
  Key <- KeyDef
  Size <- SizeDef
  Nameless = {"no"}
  Commands <- CommandsDef
  OptionArg = "-r"
  MAX_DIR = 16
INVARIANTS
  LinksLead
  EntriesOnce
  StreamsLeft
\* The program ends.
CHECK_DEADLOCK FALSE
