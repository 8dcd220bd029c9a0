-------------------------- MODULE MCConversionTags --------------------------
(***************************************************************************)
(* Small instances of ConversionTags.                                      *)
(***************************************************************************)
EXTENDS ConversionTags, TLC

CONSTANTS r1, r2, r3,       \* requests
          a1, a2,           \* advertisers
          n1, n2,           \* tag names
          p1, d1, d2, k1,   \* a pixel, two contents of a tag, a key
          act               \* an ad account

TagCall(a, n, d, k) ==
  [adv |-> a, name |-> n, pixel |-> p1, detail |-> d, key |-> k]

\* One advertiser: retries and duplicates with and without the key, and the
\* key used for another tag.
OneAdvertiser == a1 :> act
Contention ==
  {TagCall(a1, n1, d1, None), TagCall(a1, n1, d1, k1), TagCall(a1, n2, d1, k1)}

\* Two advertisers in one ad account use one key and one name.
SharedAccount == a1 :> act @@ a2 :> act
CrossAdvertiser == {TagCall(a, n1, d1, k1) : a \in {a1, a2}}

\* A retry that the client has edited, under no key.
Edited == {TagCall(a1, n1, d, None) : d \in {d1, d2}}

RequestSymmetry == Permutations(Request)
=============================================================================
