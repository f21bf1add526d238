---- MODULE MCRemoting ----
(* A base domain that creates one domain, or one that creates another. *)
EXTENDS Remoting, TLC
CONSTANTS b, x, y

TwoDomains == {b, x}
OneChild == x :> b
ThreeDomains == {b, x, y}
Chain == x :> b @@ y :> x
Nobody == {}
AllKinds == {"sync", "async", "import", "alive", "wait"}
ChainKinds == {"sync", "import", "wait"}
BlockingCalls == {"sync"}
====
