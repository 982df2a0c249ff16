---------------------------- MODULE TorchRuntime ----------------------------
(***************************************************************************)
(* How MiniLMEmbedderTorch (src/src/rag/embeddings.cpp) chooses what its   *)
(* vectors come from, out of the build, the environment and a manifest of  *)
(* libtorch artifacts.  An environment is                                  *)
(*   compiled   built with libtorch                                        *)
(*   enable     WAXCPP_ENABLE_REAL_TORCH_RUNTIME: "unset", "on" or "off"   *)
(*   strict     WAXCPP_REQUIRE_REAL_TORCH_RUNTIME                          *)
(*   cuda_preferred, cuda   the policy, and whether there is a device      *)
(*   manifest   the artifacts of the manifest that was found, or None      *)
(*   required, verify       WAXCPP_REQUIRE_LIBTORCH_MANIFEST and           *)
(*                          WAXCPP_REQUIRE_LIBTORCH_ARTIFACT_SHA256        *)
(* and an artifact is its place in the order of paths, whether its path    *)
(* says cuda and cpu, and whether its file is there with the right sum.    *)
(* Malformed values of variables, which throw, are left out.               *)
(***************************************************************************)
EXTENDS Naturals, FiniteSetsExt

CONSTANT None   \* no manifest, or no artifact

\* A slip: a strict runtime that is switched off stays off.
EnabledUnlessOff(env) == env.enable = "on" \/ (env.enable = "unset" /\ env.compiled)

Enabled(env) == env.strict \/ env.enable = "on" \/ (env.enable = "unset" /\ env.compiled)

CudaArtifacts(env) == {a \in env.manifest : a.cuda}
CpuArtifacts(env) == {a \in env.manifest : a.cpu}

Least(artifacts) ==
  IF artifacts = {} THEN None
  ELSE CHOOSE a \in artifacts : \A b \in artifacts : a.path <= b.path

WantsCuda(env) == env.cuda_preferred /\ env.cuda

AllowsCuda(env) == env.manifest = None \/ CudaArtifacts(env) # {}

\* selected_backend; what begins with fallback_ has fallback_active.
Backend(env) ==
  CASE WantsCuda(env) /\ AllowsCuda(env) /\ Enabled(env)  -> "libtorch_cuda"
    [] WantsCuda(env) /\ AllowsCuda(env) /\ ~Enabled(env) -> "fallback_cuda"
    [] ~WantsCuda(env) /\ Enabled(env)                    -> "libtorch_cpu"
    [] OTHER                                              -> "fallback_cpu"

Fallback(env) == Backend(env) \in {"fallback_cuda", "fallback_cpu"}

\* The artifact of the backend, of its kind or of any.
Selected(env) ==
  LET kind == IF Backend(env) = "fallback_cuda" THEN CudaArtifacts(env) ELSE CpuArtifacts(env)
  IN  Least(IF kind # {} THEN kind ELSE env.manifest)

\* The constructor throws.
Refused(env) ==
  \/ Enabled(env) /\ ~env.compiled
  \/ env.manifest = None /\ env.required
  \/ env.manifest = {}
  \/ env.manifest # None /\ env.verify /\ ~Selected(env).intact

\* Vectors Embed may make: torch may fail on a text, which only a strict
\* runtime reports.  "error" stands for the exception.
Makers(env) ==
  IF Fallback(env) THEN {"fallback"}
  ELSE {"torch", IF env.strict THEN "error" ELSE "fallback"}
=============================================================================
