----------------------------- MODULE Registries -----------------------------
(***************************************************************************)
(* The curated models: the five registries and lists of excluded models of *)
(* models.py, and the tables of model_registry.rs that "mirror" them.  The *)
(* Python side decides whether a model may be loaded and keys its caches   *)
(* with the revision it has on record; the Rust side fetches the revision  *)
(* that its own table pins.                                                *)
(*                                                                         *)
(* A revision is written with its first seven digits.  Sizes, notes and    *)
(* file names are left out.                                                *)
(***************************************************************************)
EXTENDS Naturals, Sequences, SequencesExt

\* RegisteredModel, of models.py and, where the backend is "ort", of Rust.
RegisteredModel(model_id, revision, license, dim, backend) ==
  [model_id |-> model_id, revision |-> revision, license |-> license,
   dim |-> dim, backend |-> backend]

RustModel(model_id, revision, license, dim) ==
  RegisteredModel(model_id, revision, license, dim, "ort")

Ids(table) == {e.model_id : e \in table}

-----------------------------------------------------------------------------
(***************************************************************************)
(* models.py.                                                              *)
(***************************************************************************)

REGISTRY == {
  RegisteredModel("BAAI/bge-small-en-v1.5", "5c38ec7", "MIT", 384, "ort"),
  RegisteredModel("minishlab/potion-retrieval-32M", "6fc8051", "MIT", 512, "model2vec"),
  RegisteredModel("minishlab/potion-base-8M", "bf8b056", "MIT", 256, "model2vec"),
  RegisteredModel("minishlab/potion-base-32M", "1e5a03f", "MIT", 512, "model2vec"),
  RegisteredModel("minishlab/potion-multilingual-128M", "73908c3", "MIT", 256, "model2vec")}

EXCLUDED == {
  "jinaai/jina-embeddings-v3", "nvidia/NV-Embed-v1", "nvidia/NV-Embed-v2",
  "Qwen/Qwen3-Embedding-0.6B", "Qwen/Qwen3-Embedding-4B", "Qwen/Qwen3-Embedding-8B"}

RERANKER_REGISTRY == {
  RegisteredModel("BAAI/bge-reranker-base", "2cfc18c", "MIT", 1, "ort")}

RERANKER_EXCLUDED == {}

NLI_REGISTRY == {
  RegisteredModel("Xenova/DeBERTa-v3-base-mnli-fever-anli", "72a1ce8", "MIT", 3, "ort"),
  RegisteredModel("MoritzLaurer/DeBERTa-v3-large-mnli-fever-anli-ling-wanli",
                  "b3546ea", "MIT", 3, "ort"),
  RegisteredModel("Xenova/nli-deberta-v3-base", "80a9903", "Apache-2.0", 3, "ort")}

NLI_EXCLUDED == {"Xenova/mDeBERTa-v3-base-xnli-multilingual-nli-2mil7"}

NER_REGISTRY == {
  RegisteredModel("onnx-community/gliner_medium-v2.1", "9594375", "Apache-2.0", 0, "ort"),
  RegisteredModel("onnx-community/gliner_multi-v2.1", "6ddaeb9", "Apache-2.0", 0, "ort")}

NER_EXCLUDED == {"urchade/gliner_base", "onnx-community/gliner_base"}

PII_REGISTRY == {
  RegisteredModel("onnx-community/bert-small-pii-detection-ONNX",
                  "6cb4e77", "Apache-2.0", 49, "ort")}

PII_EXCLUDED == {"urchade/gliner_multi_pii-v1", "ai4privacy/pii-masking-200k"}

-----------------------------------------------------------------------------
(***************************************************************************)
(* model_registry.rs.                                                      *)
(***************************************************************************)

RustEmbedding == {RustModel("BAAI/bge-small-en-v1.5", "5c38ec7", "MIT", 384)}

RustReranker == {RustModel("BAAI/bge-reranker-base", "2cfc18c", "MIT", 1)}

RustNli == {
  RustModel("Xenova/DeBERTa-v3-base-mnli-fever-anli", "72a1ce8", "MIT", 3),
  RustModel("MoritzLaurer/DeBERTa-v3-large-mnli-fever-anli-ling-wanli", "b3546ea", "MIT", 3),
  RustModel("Xenova/nli-deberta-v3-base", "80a9903", "Apache-2.0", 3)}

RustNer == {
  RustModel("onnx-community/gliner_medium-v2.1", "9594375", "Apache-2.0", 0),
  RustModel("onnx-community/gliner_multi-v2.1", "6ddaeb9", "Apache-2.0", 0)}

RustPii == {
  RustModel("onnx-community/bert-small-pii-detection-ONNX", "6cb4e77", "Apache-2.0", 49)}

-----------------------------------------------------------------------------
(***************************************************************************)
(* The tables by family, and what the rest of the program takes for        *)
(* granted about them.                                                     *)
(***************************************************************************)

\* The families, in the order the command line goes through them.
FamilyOrder == <<"embedding", "reranker", "nli", "ner", "pii">>
FamilyNames == ToSet(FamilyOrder)

PythonTable == [embedding |-> REGISTRY, reranker |-> RERANKER_REGISTRY,
                nli |-> NLI_REGISTRY, ner |-> NER_REGISTRY, pii |-> PII_REGISTRY]

ExcludedTable == [embedding |-> EXCLUDED, reranker |-> RERANKER_EXCLUDED,
                  nli |-> NLI_EXCLUDED, ner |-> NER_EXCLUDED, pii |-> PII_EXCLUDED]

RustTable == [embedding |-> RustEmbedding, reranker |-> RustReranker, nli |-> RustNli,
              ner |-> RustNer, pii |-> RustPii]

\* settings.py: the model each class loads when it is not told which.
DefaultModel == [embedding |-> "BAAI/bge-small-en-v1.5", reranker |-> "BAAI/bge-reranker-base",
                 nli |-> "Xenova/DeBERTa-v3-base-mnli-fever-anli",
                 ner |-> "onnx-community/gliner_medium-v2.1",
                 pii |-> "onnx-community/bert-small-pii-detection-ONNX"]

\* Every ort entry of Python is in the Rust table of its family with the same
\* revision, license and dimension, and the reverse; model2vec entries are only
\* in the embedding registry.  A revision that differed would be fetched as one
\* commit and cached, in memory and on disk, under the name of another.
ASSUME TablesMirror ==
  \A f \in FamilyNames :
    /\ RustTable[f] = {e \in PythonTable[f] : e.backend = "ort"}
    /\ f # "embedding" => \A e \in PythonTable[f] : e.backend = "ort"

\* No excluded model is registered, in its own family or in another, no id is
\* registered twice, and every default is registered in its family.
ASSUME TablesSound ==
  /\ \A f, g \in FamilyNames : Ids(PythonTable[f]) \cap ExcludedTable[g] = {}
  /\ \A f, g \in FamilyNames : \A a \in PythonTable[f], b \in PythonTable[g] :
       a.model_id = b.model_id => f = g /\ a = b
  /\ \A f \in FamilyNames : DefaultModel[f] \in Ids(PythonTable[f])

=============================================================================
