------------------------------ MODULE MCSettings ------------------------------
EXTENDS Settings

CONSTANTS t1, t2

MCThemes == {t1, t2}
MCInstalled == <<t1>>
MCThemeLists == {<<t2, t1>>}
MCDelayValues == {-1, 2, 500}
MCOtherWrites ==
  {"lock-delay", "cycle-delay", "themes", "disable-lock-screen",
   "idle-activation-enabled", "picture-filename"}
=============================================================================
