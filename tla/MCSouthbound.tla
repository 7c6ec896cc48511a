---------------------------- MODULE MCSouthbound ----------------------------
(* Two requests, so that a shutdown finds them in different states; two    *)
(* DELETEs of one on the wire: cancelled twice, or cancelled and swept.    *)
EXTENDS Southbound
=============================================================================
