----------------------------- MODULE MCHomeFeed -----------------------------
(***************************************************************************)
(* Small instances of HomeFeed for TLC.                                    *)
(***************************************************************************)
EXTENDS HomeFeed

CONSTANTS clarin, nacion, pagina, infobae, sports

Three == <<clarin, nacion, pagina>>
Four  == <<clarin, nacion, pagina, infobae>>
=============================================================================
