-------------------------------- MODULE MCBus --------------------------------
EXTENDS SessionBus

MCInvocations ==
  {{"exit", "lock"}, {"query"}, {"time"}, {"poke", "activate"}, {"inhibit"}}
=============================================================================
