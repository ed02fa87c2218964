------------------------------ MODULE MCConfig ------------------------------
(* Every configuration of up to two models over three names, with up to    *)
(* two aliases each; and the one of config.example.yaml.                   *)
EXTENDS Config

MCNames == {"gemma", "qwen", "g"}

MCModels ==
  [aliases   : {<<>>} \cup {<<a>> : a \in MCNames} \cup {<<a, b>> : a, b \in MCNames},
   cmd       : {<<>>, <<"llama-server">>},
   ttl       : {0},
   downloads : {{}}]
  \cup
  [aliases   : {<<>>, <<"g">>},
   cmd       : {<<"llama-server">>},
   ttl       : {-1, 60},
   downloads : {{"blank", "repo"}, {"repo", "bare"}}]

MCConfigurations ==
  UNION {[ns -> MCModels] : ns \in {{}, {"gemma"}, {"gemma", "qwen"}}}

ExampleConfigurations ==
  {[n \in {"qwen3.6-27b", "qwen3.6-27b-spec"} |->
      [aliases   |-> IF n = "qwen3.6-27b" THEN <<"qwen", "qwen3.6", "qwen3.6-27b">>
                                          ELSE <<"spec">>,
       cmd       |-> <<"/app/llama-server", "-m">>,
       ttl       |-> 300,
       downloads |-> {"repo"}]]}
=============================================================================
