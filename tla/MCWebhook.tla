----------------------------- MODULE MCWebhook -----------------------------
(* Instances of Webhook for TLC.                                           *)
EXTENDS Webhook, TLC

CONSTANTS w1

OneWorker == [h \in Handlers |-> w1]

\* A folder with a space in its name, and a file in it.
Folder == <<"a", " ", "/">>
File == Folder \o <<"%", "f">>

SomePrefixes == {Folder, <<>>}
SomeKeys == {File}

Upload == [created |-> TRUE, lake |-> TRUE, key |-> UrlEncode(File)]
Removal == [Upload EXCEPT !.created = FALSE]
Elsewhere == [Upload EXCEPT !.lake = FALSE]

\* A payload of an upload, an event of another kind and one of another bucket.
Mixed == {<<Removal, Upload, Elsewhere>>}

\* Configs: a source of the folder, a source without a prefix.
SomeConfigs == {{Folder}, {<<>>}}

HandlerSymmetry == Permutations(Handlers)
=============================================================================
