------------------------------- MODULE MCTopImpl -------------------------------
(* Small instances of TopImpl.                                              *)
EXTENDS TopImpl

MCFree       == {}
MCLateMatch  == {"matchAfterGet"}
MCEarlyQuery == {"queryBeforeDrain"}
===============================================================================
