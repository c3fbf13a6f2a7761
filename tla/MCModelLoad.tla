----------------------------- MODULE MCModelLoad -----------------------------
(* Small instances of ModelLoad for TLC, with entries of the real registries. *)
EXTENDS ModelLoad, Registries, TLC

CONSTANTS t1, t2

\* An embedding model of each backend, the other classes' default models, and
\* an excluded embedding model.
Onnx == DefaultModel["embedding"]
Potion == "minishlab/potion-base-8M"
Jina == "jinaai/jina-embeddings-v3"
MCModels == {DefaultModel[f] : f \in FamilyNames} \cup {Potion, Jina}

Among(table, models) == [f \in FamilyNames |-> Ids(table[f]) \cap models]
MCRegistered == Among(PythonTable, MCModels)
MCInRust == Among(RustTable, MCModels)
MCExcluded == [f \in FamilyNames |-> ExcludedTable[f] \cap MCModels]
MCStatic == {e.model_id : e \in {e \in REGISTRY : e.backend = "model2vec"}} \cap MCModels

\* The first of them alone.
OnlyOnnx == {Onnx}
OnnxRegistered == Among(PythonTable, OnlyOnnx)
OnnxInRust == Among(RustTable, OnlyOnnx)
NoneExcluded == [f \in FamilyNames |-> {}]

\* A local cache with nothing, and with every model that is not vendored.
ColdOrWarm == {{}, UNION {MCRegistered[f] : f \in FamilyNames} \ {Potion}}
Cold == {{}}

\* The shells: HF_HUB_OFFLINE not set, and set to 1 by the operator.
Env(hub, other) == ("HF_HUB_OFFLINE" :> hub) @@ ("TRANSFORMERS_OFFLINE" :> other)
BothShells == {Env("unset", "0"), Env("1", "unset")}
PlainShell == {Env("unset", "unset")}

OneEach == [l \in Loaders |-> 1]

ThreadSymmetry == Permutations({t1, t2})
=============================================================================
