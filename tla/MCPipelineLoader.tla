-------------------------- MODULE MCPipelineLoader --------------------------
(* Declarations for TLC: every file of at most three stages over three     *)
(* kinds, every graph of four stages without a self-requirement, and       *)
(* templates/pipeline.yaml, its kinds numbered in alphabetical order.      *)
EXTENDS PipelineLoader

MCKind == 1..11

ShortFiles == UNION {[1..n -> [produces : 1..3, requires : SUBSET (1..3)]] : n \in 0..3}

FourStages ==
    {[k \in 1..4 |-> [produces |-> 5 - k, requires |-> requires[5 - k]]] :
        requires \in {r \in [1..4 -> SUBSET (1..4)] : \A k \in 1..4 : k \notin r[k]}}

PipelineYaml ==
    LET caption == 1 image == 2 package == 3 prompt == 4 render == 5 research == 6
        scene_set == 7 script == 8 thumbnail == 9 timeline == 10 voice == 11
        stage(kind, needs) == [produces |-> kind, requires |-> needs]
    IN  << stage(research, {}), stage(script, {research}), stage(scene_set, {script}),
           stage(prompt, {scene_set}), stage(image, {prompt}), stage(voice, {scene_set}),
           stage(timeline, {image, voice}), stage(render, {timeline}),
           stage(caption, {render}), stage(thumbnail, {image, caption}),
           stage(package, {render, caption, thumbnail}) >>

MCDeclaration == ShortFiles \cup FourStages \cup {PipelineYaml}
=============================================================================
