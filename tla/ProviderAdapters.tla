---------------------------- MODULE ProviderAdapters ----------------------------
(***************************************************************************)
(* The three advisors and the judge: what each makes of a reply of its     *)
(* provider.  The adapters share no code beyond _http.py, so each keeps a  *)
(* definition of its own even where two agree.                             *)
(*                                                                         *)
(* A claim or a locator is the sequence of its words, split at "|"; Blank  *)
(* is one without any.  Confidence and severity are abstracted to whether  *)
(* both are in range (graded).                                             *)
(***************************************************************************)
EXTENDS Naturals, Sequences, SequencesExt

Advisors == {"openai", "claude", "grok"}
Adapters == Advisors \cup {"judge"}

Blank == << >>

\* Where each finds its key; the judge shares the advisor's.
OpenAIKey == "OPENAI_API_KEY"
ClaudeKey == "ANTHROPIC_API_KEY"
GrokKey == "XAI_API_KEY"
JudgeKey == "OPENAI_API_KEY"

KeyOf(adapter) ==
    CASE adapter = "openai" -> OpenAIKey
      [] adapter = "claude" -> ClaudeKey
      [] adapter = "grok" -> GrokKey
      [] adapter = "judge" -> JudgeKey

-----------------------------------------------------------------------------
\* urllib_transport(): what a call of the network comes to.  A body that is cut
\* off raises http.client.IncompleteRead, which nothing on the way catches.
Response(status) == [kind |-> "response", status |-> status]
urllib_transport(event) ==
    CASE event.kind = "response" -> event
      [] event.kind \in {"timeout", "unreachable"} ->
            [kind |-> "failure", retryable |-> TRUE]
      [] event.kind = "cutOff" -> [kind |-> "exception"]

is_retryable_status(status) == status = 429 \/ status >= 500

\* What one attempt of _post() leads to: another one, the answer, the failure
\* it gives up with, or an exception of no type it knows.
Posts(reply, last) ==
    CASE reply.kind = "exception" -> "raised"
      [] reply.kind = "failure" ->
            IF reply.retryable /\ ~last THEN "again" ELSE "failed"
      [] reply.kind = "response" ->
            IF reply.status \in 200..299 THEN "answered"
            ELSE IF is_retryable_status(reply.status) /\ ~last THEN "again"
            ELSE "failed"

OpenAIPosts(reply, last) == Posts(reply, last)
ClaudePosts(reply, last) == Posts(reply, last)
GrokPosts(reply, last) == Posts(reply, last)
JudgePosts(reply, last) == Posts(reply, last)

AttemptLeadsTo(adapter, event, last) ==
    LET reply == urllib_transport(event) IN
    CASE adapter = "openai" -> OpenAIPosts(reply, last)
      [] adapter = "claude" -> ClaudePosts(reply, last)
      [] adapter = "grok" -> GrokPosts(reply, last)
      [] adapter = "judge" -> JudgePosts(reply, last)

-----------------------------------------------------------------------------
\* A body is an envelope with an id or none, a usage and its text parts, or it
\* is no JSON object.  A text is blank, no JSON object, or a contract.
BlankText == [kind |-> "blank"]

\* choices[0].message.content, and nothing after it.
FirstChoice(envelope) ==
    IF envelope.parts = << >> THEN BlankText ELSE envelope.parts[1]

\* The first content block with a text that is not blank.
FirstText(envelope) ==
    LET told == SelectSeq(envelope.parts, LAMBDA part : part.kind # "blank") IN
    IF told = << >> THEN BlankText ELSE told[1]

OpenAIContent(envelope) == FirstChoice(envelope)
ClaudeContent(envelope) == FirstText(envelope)
GrokContent(envelope) == FirstChoice(envelope)
JudgeContent(envelope) == FirstChoice(envelope)

Content(adapter, envelope) ==
    CASE adapter = "openai" -> OpenAIContent(envelope)
      [] adapter = "claude" -> ClaudeContent(envelope)
      [] adapter = "grok" -> GrokContent(envelope)
      [] adapter = "judge" -> JudgeContent(envelope)

\* An answer to read: an object, with content.
Readable(adapter, body) ==
    body.kind = "envelope" /\ Content(adapter, body).kind # "blank"

\* _record_cost(): the event that is recorded, none without the provider's own
\* token counts or a response id.
Costs(provider, usage, envelope) ==
    IF envelope.usage = usage /\ envelope.id # 0 THEN {<<provider, envelope.id>>} ELSE {}

OpenAICosts(envelope) == Costs("openai", "prompt_tokens", envelope)
ClaudeCosts(envelope) == Costs("claude", "input_tokens", envelope)
GrokCosts(envelope) == Costs("grok", "prompt_tokens", envelope)
JudgeCosts(envelope) == Costs("openai", "prompt_tokens", envelope)

CostEvents(adapter, envelope) ==
    CASE adapter = "openai" -> OpenAICosts(envelope)
      [] adapter = "claude" -> ClaudeCosts(envelope)
      [] adapter = "grok" -> GrokCosts(envelope)
      [] adapter = "judge" -> JudgeCosts(envelope)

-----------------------------------------------------------------------------
\* _finding_id(): the parts are joined by "|" before they are hashed, so where
\* one ended and the next began is forgotten.
finding_id(provider, step, claim, evidence) ==
    <<provider, step>> \o claim \o FlattenSeq(evidence)

NoFinding == [status |-> "ERROR"]

\* _build_finding(): a refusal comes first; then everything must be in order.
Finding(provider, contract, step) ==
    IF contract.status = "ABSTAIN" THEN [status |-> "ABSTAIN"]
    ELSE IF /\ contract.status = "OK"
            /\ contract.claim # Blank
            /\ contract.evidence # << >>
            /\ \A i \in DOMAIN contract.evidence : contract.evidence[i] # Blank
            /\ contract.graded
    THEN [status |-> "FINDING",
          finding |-> [id |-> finding_id(provider, step, contract.claim, contract.evidence),
                       source |-> provider,
                       claim |-> contract.claim,
                       evidence |-> contract.evidence,
                       step |-> step]]
    ELSE NoFinding

OpenAIFinding(contract, step) == Finding("openai", contract, step)
ClaudeFinding(contract, step) == Finding("claude", contract, step)
GrokFinding(contract, step) == Finding("grok", contract, step)

\* advise() of a text.
Advice(adapter, text, step) ==
    IF text.kind # "contract" THEN NoFinding
    ELSE CASE adapter = "openai" -> OpenAIFinding(text, step)
           [] adapter = "claude" -> ClaudeFinding(text, step)
           [] adapter = "grok" -> GrokFinding(text, step)

-----------------------------------------------------------------------------
Mutantevidence_refs_of(contract, known) ==
    /\ contract.refs # << >>
    /\ \A i, j \in DOMAIN contract.refs : contract.refs[i] = contract.refs[j] => i = j

\* Every reference names a finding of the conflict, once.
evidence_refs_of(contract, known) ==
    /\ contract.refs # << >>
    /\ \A i \in DOMAIN contract.refs : contract.refs[i] \in known
    /\ \A i, j \in DOMAIN contract.refs : contract.refs[i] = contract.refs[j] => i = j

Judgment(status, refs) == [status |-> status, refs |-> refs]
FailedJudgment == Judgment("ERROR", << >>)

\* judge() of a text: a decision in every case, and never a rejection for what
\* is a failure.
Verdict(text, known) ==
    IF text.kind # "contract" THEN FailedJudgment
    ELSE IF text.status = "ABSTAIN" THEN Judgment("ABSTAIN", << >>)
    ELSE IF /\ text.status \in {"ACCEPTED", "REJECTED"}
            /\ text.rationale
            /\ evidence_refs_of(text, known)
    THEN Judgment(text.status, text.refs)
    ELSE FailedJudgment

=============================================================================
