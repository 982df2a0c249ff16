------------------------------ MODULE MCIngest ------------------------------
(* Texts with repeated words, so that chunks repeat within a batch, for TLC. *)
EXTENDS Ingest
CONSTANTS a, b, w1, w2

MCContent == {<<a, a, a>>, <<a, b, a, b>>, <<Blank, Blank, b>>}
MCQuery == {<<b>>}
Made(embedder, target, overlap, vocab) ==
  [embedder |-> embedder, strategy |-> <<target, overlap>>, vocab |-> vocab]
MCConfig == {Made("llama", 2, 1, FALSE), Made("llama", 1, 0, TRUE),
             Made("minilm", 2, 2, FALSE), Made("plain", 2, -1, FALSE)}

MCArtifact(path, cuda, cpu, intact) ==
  [path |-> path, cuda |-> cuda, cpu |-> cpu, intact |-> intact]
MCSurroundings(enable, strict, cuda, manifest) ==
  [compiled |-> TRUE, enable |-> enable, strict |-> strict, cuda_preferred |-> TRUE,
   cuda |-> cuda, required |-> FALSE, verify |-> TRUE, manifest |-> manifest]
CpuOnly == {MCArtifact(1, FALSE, TRUE, TRUE)}
Both == {MCArtifact(1, TRUE, FALSE, TRUE), MCArtifact(2, TRUE, TRUE, FALSE)}
MCEnv == {MCSurroundings("unset", FALSE, FALSE, None), MCSurroundings("off", FALSE, TRUE, Both),
          MCSurroundings("off", TRUE, TRUE, CpuOnly), MCSurroundings("off", TRUE, FALSE, CpuOnly)}
=============================================================================
