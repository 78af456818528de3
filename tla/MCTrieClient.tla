---------------------------- MODULE MCTrieClient ----------------------------
(***************************************************************************)
(* Instances of TrieClient.  The rules of an instance are the patterns of  *)
(* 0, 1 and * in the chosen masks, with the priorities 1 to Priorities;    *)
(* rules of one pattern and several priorities are offered too.            *)
(***************************************************************************)
EXTENDS TrieClient

CONSTANTS Masks, Priorities

MCRules == { r \in Rules(1 .. Priorities) : r.mask \in Masks /\ r.value \cap r.mask = {} }

\* All masks but the one of wildcards only.
ProperMasks == Words \ {Bits}

\* Masks an int can shift to, of fewer than IntWidth - 1 wildcards.
LowMasks == SUBSET (0 .. IntWidth - 2) \ { {}, 0 .. IntWidth - 2 }
=============================================================================
