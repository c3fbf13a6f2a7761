---------------------------- MODULE BatchedEmbed ----------------------------
(***************************************************************************)
(* The array arithmetic of OrtBackend::embed (rust/core/ort_runtime.rs):   *)
(* the texts are cut into chunks, each chunk goes through one forward pass *)
(* and its rows are copied into the output array, which starts as zeros.   *)
(*                                                                         *)
(* Positions are 1-based here and 0-based in the code.                     *)
(***************************************************************************)
EXTENDS Naturals, Sequences

CONSTANT Zero   \* an all-zero row of the output array

\* texts.chunks(batch_size.max(1)): the width the texts are CUT by.
ChunkWidth(b) == IF b = 0 THEN 1 ELSE b

\* The output row the text at position p is copied to.  The offset of its
\* chunk is chunk_idx * batch_size, the width it was cut by notwithstanding.
DestRow(p, b) ==
  ((p - 1) \div ChunkWidth(b)) * b + ((p - 1) % ChunkWidth(b)) + 1

\* The array returned for the texts whose right vectors are `vectors`: a row
\* holds the last vector copied to it, or the zeros it was allocated with.
OutputRows(vectors, b) ==
  [r \in DOMAIN vectors |->
     LET writers == {p \in DOMAIN vectors : DestRow(p, b) = r}
     IN  IF writers = {}
         THEN Zero
         ELSE vectors[CHOOSE p \in writers : \A q \in writers : q <= p]]

=============================================================================
