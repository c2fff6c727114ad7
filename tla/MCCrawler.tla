----------------------------- MODULE MCCrawler ------------------------------
(* TLC instances of Crawler: pages that link to each other in a circle and *)
(* to themselves, a link found on two pages, lines without a link, and an  *)
(* answer without any line.                                                *)
EXTENDS Crawler, TLC

CONSTANTS u1, u2, u3, u4

MCPage == (u1 :> << NoLink, u2, u3, u4 >>) @@ (u2 :> << u1, u2 >>)
             @@ (u3 :> << u2, NoLink >>) @@ (u4 :> << >>)
=============================================================================
