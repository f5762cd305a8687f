-------------------------------- MODULE MCSite --------------------------------
(* Two workers; three rows, pages of one or two; a picture sent twice.        *)
EXTENDS Site

CONSTANTS w1, w2
===============================================================================
