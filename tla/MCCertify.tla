------------------------------ MODULE MCCertify -------------------------------
EXTENDS Certify

CONSTANTS osv, p1, p2, p3, g

(* Two pages; the first has a package of type guac in its middle.                  *)
MCPackages == <<p1, g, p2, p3>>
=============================================================================
