------------------------------- MODULE MCSite -------------------------------
(* Two jobs that may crawl as many pages of the domain each. *)
EXTENDS Site

Pages == [j \in Jobs |-> 2]
=============================================================================
