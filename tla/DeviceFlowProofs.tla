-------------------------- MODULE DeviceFlowProofs --------------------------
(***************************************************************************)
(* Theorems about DeviceFlow, for any handlers and any rows.               *)
(***************************************************************************)
EXTENDS DeviceFlow, TLAPS

WorkRecords ==
    [op : {"none", "approve", "deny", "retrieve", "code", "pair"}, on : Rows \cup Handlers \cup {None},
     saw : Statuses \cup {"fresh"}, grant : Handlers \cup {None}, seen : SUBSET Handlers]

\* What a handler is about, from the moment it has fetched.
Begun(h) ==
    /\ at[h] = "new" => work[h] = NoWork /\ got[h] = None /\ h \notin claims
    /\ at[h] = "granted" => work[h].op = "approve"
    /\ at[h] = "claimed" => work[h].op = "pair" /\ h \in claims
    /\ got[h] # None => at[h] = "done"
    /\ work[h].op = "approve" => work[h].on \in Rows /\ work[h].saw = "pending"
    /\ work[h].op = "deny" => work[h].on \in Rows /\ work[h].saw \in {"pending", "expired"}
    /\ work[h].op = "retrieve" => work[h].on \in Rows /\ work[h].saw = "approved"

\* A code is made once, and whoever pairs with it found it unused; a claim spends it.
Paired(h) ==
    /\ codes[h] # "absent" => at[h] \in {"granted", "done"}
    /\ work[h].op = "pair" =>
        /\ work[h].on \in Handlers /\ work[h].seen = {}
        /\ at[work[h].on] \in {"granted", "done"}
        /\ h \in claims => codes[work[h].on] # "fresh"
        /\ got[h] # None => h \in claims

\* A credential that a claim has paid out is in no approved row again, so that whoever
\* fetches after the claim gets another one.
Retrieved(h) ==
    /\ h \in claims => work[h].op \in {"retrieve", "pair"}
    /\ got[h] # None => work[h].op = "pair" \/ (work[h].op = "retrieve" /\ got[h] = work[h].grant)
    /\ work[h].op = "retrieve" =>
        /\ work[h].grant # None => at[work[h].grant] = "done"
        /\ h \in claims /\ work[h].grant # None /\ status[work[h].on] = "approved"
            => grant[work[h].on] # work[h].grant
        /\ \A g \in work[h].seen :
            /\ g \in claims \/ at[g] = "done"
            /\ g \in claims /\ work[g].op = "retrieve" /\ work[h].grant # None
                => work[g].grant # work[h].grant

GrantsSound == \A r \in Rows : grant[r] # None => at[grant[r]] = "done"

FlowSound == TypeOK /\ GrantsSound /\ \A h \in Handlers : Begun(h) /\ Paired(h) /\ Retrieved(h)

LEMMA FlowInit == Init => FlowSound
<1> SUFFICES ASSUME Init PROVE FlowSound
  OBVIOUS
<1>1. NoWork \in WorkRecords /\ NoWork.op = "none"
  BY DEF NoWork, WorkRecords, Statuses
<1>2. TypeOK
  BY <1>1 DEF Init, TypeOK, Statuses, WorkRecords
<1>3. QED BY <1>1, <1>2 DEF Init, FlowSound, GrantsSound, Begun, Paired, Retrieved

----------------------------------------------------------------------------
(* What a step may do, by what it touches.                                 *)

\* The rows: no approval is recorded, and no code is made.
RowsOnly ==
    /\ UNCHANGED <<grant, at, work, claims, got>>
    /\ status' \in [Rows -> Statuses] /\ codes' \in [Handlers -> {"absent", "fresh", "used"}]
    /\ late' \subseteq Rows \cup Handlers
    /\ \A r \in Rows : status'[r] = "approved" => status[r] = "approved"
    /\ \A k \in Handlers : codes'[k] # "absent" => codes[k] # "absent"
    /\ \A k \in Handlers : codes'[k] = "fresh" => codes[k] = "fresh"

LEMMA RowsOnlyKeeps == FlowSound /\ RowsOnly => FlowSound'
<1> SUFFICES ASSUME FlowSound, RowsOnly PROVE FlowSound'
  OBVIOUS
<1>1. TypeOK'
  BY DEF FlowSound, RowsOnly, TypeOK
<1>2. GrantsSound'
  BY DEF FlowSound, RowsOnly, GrantsSound
<1>3. \A h \in Handlers : Begun(h)'
  BY DEF FlowSound, RowsOnly, Begun
<1>4. \A h \in Handlers : Paired(h)'
  BY DEF FlowSound, RowsOnly, Paired
<1>5. ASSUME NEW h \in Handlers PROVE Retrieved(h)'
  <2>1. work[h].op = "retrieve" => work[h].on \in Rows
    BY DEF FlowSound, Begun
  <2>2. QED BY <2>1 DEF FlowSound, RowsOnly, Retrieved
<1>6. QED BY <1>1, <1>2, <1>3, <1>4, <1>5 DEF FlowSound

\* A handler fetches.
LEMMA FetchKeeps ==
  ASSUME FlowSound, NEW h \in Handlers, NEW op \in {"approve", "deny", "retrieve", "pair"},
         NEW x \in Rows \cup Handlers, NEW saw \in Statuses \cup {"fresh"}, NEW g \in Handlers \cup {None},
         Fetch(h, op, x, saw, g),
         op \in {"approve", "deny", "retrieve"} => x \in Rows,
         op = "approve" => saw = "pending", op = "deny" => saw \in {"pending", "expired"},
         op = "retrieve" => saw = "approved" /\ status[x] = "approved" /\ g = grant[x],
         op = "pair" => x \in Handlers /\ codes[x] = "fresh"
  PROVE  FlowSound'
<1> DEFINE seen == {k \in claims \cup Paid : work[k].on = x}
           w == [op |-> op, on |-> x, saw |-> saw, grant |-> g, seen |-> seen]
<1>1. /\ at[h] = "new" /\ at' = [at EXCEPT ![h] = "read"] /\ work' = [work EXCEPT ![h] = w]
      /\ UNCHANGED <<status, grant, codes, late, claims, got>>
  BY DEF Fetch, Goes
<1>2. TypeOK
  BY DEF FlowSound
<1>3. seen \in SUBSET Handlers /\ \A k \in seen : (k \in claims \/ got[k] # None) /\ work[k].on = x /\ k \in Handlers
  BY <1>2 DEF TypeOK, Paid, Pays
<1> HIDE DEF seen
<1>4. /\ w \in WorkRecords /\ w.op = op /\ w.on = x /\ w.saw = saw /\ w.grant = g /\ w.seen = seen
  BY <1>3 DEF WorkRecords
<1> HIDE DEF w
<1>5. /\ at'[h] = "read" /\ work'[h] = w
      /\ \A k \in Handlers \ {h} : at'[k] = at[k] /\ work'[k] = work[k]
  BY <1>1, <1>2 DEF TypeOK
<1>6. at' \in [Handlers -> {"new", "read", "granted", "claimed", "done"}] /\ work' \in [Handlers -> WorkRecords]
  BY <1>1, <1>2, <1>4 DEF TypeOK, WorkRecords
<1>7. TypeOK'
  BY <1>1, <1>2, <1>6 DEF TypeOK, WorkRecords
<1>8. \A k \in Handlers : at[k] \in {"granted", "done"} => k # h
  BY <1>1
<1>9. h \notin claims /\ got[h] = None /\ work[h].op = "none" /\ codes[h] = "absent"
  BY <1>1, <1>2 DEF FlowSound, Begun, NoWork, Paired, TypeOK
<1>10. GrantsSound'
  BY <1>1, <1>2, <1>5, <1>8 DEF FlowSound, GrantsSound, TypeOK
<1>11. \A k \in Handlers : Begun(k)'
  BY <1>1, <1>4, <1>5 DEF FlowSound, Begun
<1>12. ASSUME NEW k \in Handlers \ {h} PROVE Paired(k)' /\ Retrieved(k)'
  <2>1. Paired(k) /\ Retrieved(k) /\ work'[k] = work[k] /\ at'[k] = at[k]
    BY <1>5 DEF FlowSound
  <2>2. Paired(k)'
    BY <1>1, <1>5, <1>8, <2>1 DEF Paired
  <2>3. work[k].grant \in Handlers \cup {None} /\ work[k].seen \subseteq Handlers
    BY <1>2 DEF TypeOK
  <2>4. \A q \in work[k].seen : work[k].op = "retrieve" =>
          q \in Handlers \ {h} /\ work'[q] = work[q] /\ at'[q] = at[q]
    <3>1. \A q \in work[k].seen : work[k].op = "retrieve" => q \in Handlers \ {h}
      BY <1>1, <1>9, <2>1, <2>3 DEF Retrieved
    <3>2. QED BY <1>5, <3>1
  <2>5. work[k].op = "retrieve" /\ work[k].grant # None => at'[work[k].grant] = "done"
    BY <1>5, <1>8, <2>1, <2>3 DEF Retrieved
  <2>6. Retrieved(k)'
    BY <1>1, <2>1, <2>4, <2>5 DEF Retrieved
  <2>7. QED BY <2>2, <2>6
<1>13. Paired(h)'
  <2>1. ASSUME op = "pair" PROVE x \in Handlers /\ codes[x] = "fresh" /\ at[x] \in {"granted", "done"}
    BY <2>1 DEF FlowSound, Paired
  <2>2. ASSUME op = "pair", NEW k \in seen PROVE FALSE
    <3>1. (k \in claims \/ got[k] # None) /\ work[k].on = x /\ k \in Handlers /\ x \in Handlers /\ codes[x] = "fresh"
      BY <1>3, <2>1, <2>2
    <3>2. work[k].op \in {"retrieve", "pair"}
      BY <3>1 DEF FlowSound, Retrieved
    <3>3. work[k].op # "retrieve"
      BY <3>1, RowsAssumption DEF FlowSound, Begun, Rows
    <3>4. work[k].op # "pair"
      BY <3>1 DEF FlowSound, Paired
    <3>5. QED BY <3>2, <3>3, <3>4
  <2>3. QED BY <1>1, <1>4, <1>5, <1>8, <1>9, <2>1, <2>2 DEF Paired
<1>14. Retrieved(h)'
  <2>1. ASSUME op = "retrieve" PROVE g # None => at'[g] = "done"
    BY <1>1, <1>2, <1>5, <1>8, <2>1 DEF FlowSound, GrantsSound, TypeOK
  <2>2. ASSUME op = "retrieve", NEW k \in seen
        PROVE  /\ k \in claims' \/ at'[k] = "done"
               /\ k \in claims' /\ work'[k].op = "retrieve" /\ g # None => work'[k].grant # g
    <3>1. (k \in claims \/ got[k] # None) /\ work[k].on = x /\ k \in Handlers /\ k # h
      BY <1>3, <1>9, <2>2
    <3>2. Retrieved(k) /\ Begun(k) /\ work'[k] = work[k] /\ at'[k] = at[k]
      BY <1>5, <3>1 DEF FlowSound
    <3>3. k \in claims' \/ at'[k] = "done"
      BY <1>1, <3>1, <3>2 DEF Begun
    <3>4. QED BY <1>1, <2>2, <3>1, <3>2, <3>3 DEF Retrieved
  <2>3. QED BY <1>1, <1>4, <1>5, <1>9, <2>1, <2>2 DEF Retrieved
<1>15. QED BY <1>7, <1>10, <1>11, <1>12, <1>13, <1>14 DEF FlowSound

\* A handler goes on, and changes neither what it is about nor the rows.
LEMMA DecisionMade ==
  ASSUME FlowSound, NEW h \in Handlers, NEW to \in {"granted", "done"},
         at[h] = "granted" \/ (at[h] = "read" /\ work[h].op \in {"approve", "deny"}),
         to = "granted" => at[h] = "read" /\ work[h].op = "approve",
         Goes(h, to), UNCHANGED <<late, work, claims, got>>,
         \/ UNCHANGED codes
         \/ to = "granted" /\ codes' = [codes EXCEPT ![h] = "fresh"],
         \/ UNCHANGED <<status, grant>>
         \/ /\ at[h] = "granted" /\ to = "done"
            /\ status' = [status EXCEPT ![work[h].on] = "approved"]
            /\ \E g \in {None, h} : grant' = [grant EXCEPT ![work[h].on] = g]
         \/ /\ work[h].op = "deny" /\ UNCHANGED grant
            /\ status' = [status EXCEPT ![work[h].on] = "denied"]
  PROVE  FlowSound'
<1>1. TypeOK
  BY DEF FlowSound
<1>2. at'[h] = to /\ \A k \in Handlers \ {h} : at'[k] = at[k]
  BY <1>1 DEF TypeOK, Goes
<1>3. at' \in [Handlers -> {"new", "read", "granted", "claimed", "done"}]
  BY <1>1 DEF TypeOK, Goes
<1>4. codes' \in [Handlers -> {"absent", "fresh", "used"}] /\ \A k \in Handlers \ {h} : codes'[k] = codes[k]
  BY <1>1 DEF TypeOK
<1>5. /\ status' \in [Rows -> Statuses] /\ grant' \in [Rows -> Handlers \cup {None}]
  BY <1>1 DEF TypeOK, Statuses
<1>6. TypeOK'
  BY <1>1, <1>3, <1>4, <1>5 DEF TypeOK
<1>7. \A k \in Handlers : /\ at[k] \in {"granted", "done"} => at'[k] \in {"granted", "done"}
                          /\ at[k] = "done" => at'[k] = "done"
  BY <1>2
<1>8. Begun(h) /\ Paired(h) /\ Retrieved(h) /\ work[h].op \in {"approve", "deny"} /\ work[h].on \in Rows
  BY DEF FlowSound, Begun
<1>9. None \notin Handlers
  BY RowsAssumption
<1>10. \A r \in Rows : grant'[r] = grant[r] \/ (grant'[r] \in {None, h} /\ at'[h] = "done" /\ at[h] = "granted")
  BY <1>1, <1>2 DEF TypeOK
<1>11. GrantsSound'
  BY <1>1, <1>7, <1>9, <1>10 DEF FlowSound, GrantsSound, TypeOK
<1>12. \A k \in Handlers : Begun(k)'
  BY <1>2, <1>8 DEF FlowSound, Begun
<1>13. ASSUME NEW k \in Handlers PROVE Paired(k)'
  <2>1. Paired(k)
    BY DEF FlowSound
  <2>2. codes'[k] # "absent" => at'[k] \in {"granted", "done"}
    BY <1>2, <1>4, <1>7, <2>1 DEF Paired
  <2>3. work[k].op = "pair" => work[k].on # h \/ at[h] = "granted"
    BY <2>1, <1>8, <1>1 DEF Paired, TypeOK
  <2>4. work[k].op = "pair" /\ k \in claims => codes'[work[k].on] # "fresh"
    BY <1>2, <1>4, <2>1, <2>3 DEF Paired
  <2>5. QED BY <1>7, <2>1, <2>2, <2>4 DEF Paired
<1>14. ASSUME NEW k \in Handlers PROVE Retrieved(k)'
  <2>1. Retrieved(k) /\ Begun(k) /\ work[k].grant \in Handlers \cup {None}
    BY <1>1 DEF FlowSound, TypeOK
  <2>2. work[k].op = "retrieve" /\ work[k].grant # None => at[work[k].grant] = "done" /\ at'[work[k].grant] = "done"
    BY <1>7, <2>1 DEF Retrieved
  <2>3. ASSUME work[k].op = "retrieve", k \in claims, work[k].grant # None, status'[work[k].on] = "approved"
        PROVE  grant'[work[k].on] # work[k].grant
    <3>1. work[k].on \in Rows
      BY <2>1, <2>3 DEF Begun
    <3>2. CASE grant'[work[k].on] = grant[work[k].on] /\ status'[work[k].on] = status[work[k].on]
      BY <2>1, <2>3, <3>2 DEF Retrieved
    <3>3. CASE grant'[work[k].on] \in {None, h} /\ at[h] = "granted"
      BY <2>2, <2>3, <3>3
    <3>4. QED BY <1>1, <1>10, <2>3, <3>1, <3>2, <3>3 DEF TypeOK
  <2>4. ASSUME work[k].op = "retrieve", NEW q \in work[k].seen
        PROVE  /\ q \in claims' \/ at'[q] = "done"
               /\ q \in claims' /\ work[q].op = "retrieve" /\ work[k].grant # None
                   => work[q].grant # work[k].grant
    <3>1. q \in Handlers
      BY <1>1, <2>4 DEF TypeOK
    <3>2. QED BY <1>7, <2>1, <2>4, <3>1 DEF Retrieved
  <2>5. QED BY <2>1, <2>2, <2>3, <2>4 DEF Retrieved
<1>15. QED BY <1>6, <1>11, <1>12, <1>13, <1>14 DEF FlowSound

LEMMA RetrievalEnds ==
  ASSUME FlowSound, NEW h \in Handlers, MarkExchanged(h)
  PROVE  FlowSound'
<1>1. TypeOK /\ Begun(h) /\ Retrieved(h)
  BY DEF FlowSound
<1>2. /\ at[h] = "read" /\ work[h].op = "retrieve" /\ at' = [at EXCEPT ![h] = "done"]
      /\ got' = [got EXCEPT ![h] = work[h].grant] /\ UNCHANGED <<grant, codes, late, work>>
  BY DEF MarkExchanged, Goes
<1>3. work[h].on \in Rows /\ work[h].grant \in Handlers \cup {None}
  BY <1>1, <1>2 DEF Begun, TypeOK
<1>4. /\ at'[h] = "done" /\ got'[h] = work[h].grant
      /\ \A k \in Handlers \ {h} : at'[k] = at[k] /\ got'[k] = got[k]
  BY <1>1, <1>2 DEF TypeOK
<1>5. /\ status' \in [Rows -> Statuses] /\ claims' \subseteq Handlers /\ claims \subseteq claims'
      /\ claims' \subseteq claims \cup {h}
      /\ \A r \in Rows : status'[r] = "approved" => status[r] = "approved"
      /\ h \in claims' => h \in claims \/ status'[work[h].on] = "exchanged"
  BY <1>1, <1>3 DEF MarkExchanged, TypeOK, Statuses
<1>6. TypeOK'
  <2>1. at' \in [Handlers -> {"new", "read", "granted", "claimed", "done"}] /\ got' \in [Handlers -> Handlers \cup {None}]
    BY <1>1, <1>2, <1>3 DEF TypeOK
  <2>2. QED BY <1>1, <1>2, <1>5, <2>1 DEF TypeOK
<1>7. \A k \in Handlers : /\ at[k] \in {"granted", "done"} => at'[k] \in {"granted", "done"}
                          /\ at[k] = "done" => at'[k] = "done"
  BY <1>4
<1>8. GrantsSound'
  BY <1>1, <1>2, <1>7 DEF FlowSound, GrantsSound, TypeOK
<1>9. \A k \in Handlers : Begun(k)'
  BY <1>2, <1>4, <1>5 DEF FlowSound, Begun
<1>10. ASSUME NEW k \in Handlers PROVE Paired(k)'
  <2>1. Paired(k) /\ (work[k].op = "pair" => (k \in claims' <=> k \in claims))
    BY <1>2, <1>5 DEF FlowSound
  <2>2. QED BY <1>2, <1>7, <2>1 DEF Paired
<1>11. ASSUME NEW k \in Handlers PROVE Retrieved(k)'
  <2>1. Retrieved(k) /\ Begun(k) /\ work[k].grant \in Handlers \cup {None}
    BY <1>1 DEF FlowSound, TypeOK
  <2>2. k \in claims' => work[k].op \in {"retrieve", "pair"}
    BY <1>2, <1>5, <2>1 DEF Retrieved
  <2>3. got'[k] # None => work[k].op = "pair" \/ (work[k].op = "retrieve" /\ got'[k] = work[k].grant)
    BY <1>2, <1>4, <2>1 DEF Retrieved
  <2>4. ASSUME work[k].op = "retrieve", k \in claims', work[k].grant # None, status'[work[k].on] = "approved"
        PROVE  grant[work[k].on] # work[k].grant
    <3>1. work[k].on \in Rows
      BY <2>1, <2>4 DEF Begun
    <3>2. k \in claims
      BY <1>5, <2>4
    <3>3. QED BY <1>5, <2>1, <2>4, <3>1, <3>2 DEF Retrieved
  <2>5. QED BY <1>2, <1>5, <1>7, <2>1, <2>2, <2>3, <2>4 DEF Retrieved
<1>12. QED BY <1>6, <1>8, <1>9, <1>10, <1>11 DEF FlowSound

\* A handler of a code: it makes one, spends one, is paid or gives up.
LEMMA PairingMoves ==
  ASSUME FlowSound, NEW h \in Handlers, CreateCode(h) \/ MarkUsed(h) \/ IssueToken(h) \/ PairingFails(h)
  PROVE  FlowSound'
<1>1. TypeOK /\ Begun(h) /\ Paired(h) /\ Retrieved(h)
  BY DEF FlowSound
<1>2. PICK to \in {"claimed", "done"} : at' = [at EXCEPT ![h] = to] /\ (to = "claimed" => work[h].op = "pair")
  BY DEF CreateCode, MarkUsed, IssueToken, PairingFails, Goes
<1>3. /\ at[h] \in {"new", "read", "claimed"} /\ UNCHANGED <<status, grant, late>>
      /\ at[h] = "new" => to = "done" /\ CreateCode(h)
      /\ at[h] # "new" => work[h].op = "pair"
  <2>1. CASE CreateCode(h)
    BY <1>1, <1>2, <2>1 DEF CreateCode, Goes, TypeOK
  <2>2. CASE MarkUsed(h)
    BY <2>2 DEF MarkUsed
  <2>3. CASE IssueToken(h) \/ PairingFails(h)
    BY <1>1, <2>3 DEF IssueToken, PairingFails, Begun
  <2>4. QED BY <2>1, <2>2, <2>3
<1>4. /\ at'[h] = to /\ \A k \in Handlers \ {h} : at'[k] = at[k]
      /\ at' \in [Handlers -> {"new", "read", "granted", "claimed", "done"}]
  BY <1>1, <1>2 DEF TypeOK
<1>5. \A k \in Handlers : /\ at[k] \in {"granted", "done"} => at'[k] \in {"granted", "done"} /\ k # h
                          /\ at[k] = "done" => at'[k] = "done"
  BY <1>3, <1>4
<1>6. /\ work' \in [Handlers -> WorkRecords] /\ \A k \in Handlers \ {h} : work'[k] = work[k]
      /\ at[h] = "new" => work'[h].op = "code"
      /\ at[h] # "new" => work'[h] = work[h]
  <2>1. CASE CreateCode(h)
    <3>1. work[h] \in WorkRecords /\ work' = [work EXCEPT ![h] = [work[h] EXCEPT !.op = "code"]]
      BY <1>1, <2>1 DEF CreateCode, TypeOK, WorkRecords
    <3>2. [work[h] EXCEPT !.op = "code"] \in WorkRecords /\ [work[h] EXCEPT !.op = "code"].op = "code"
      BY <3>1 DEF WorkRecords
    <3>3. work \in [Handlers -> WorkRecords]
      BY <1>1 DEF TypeOK, WorkRecords
    <3>4. at[h] = "new"
      BY <2>1 DEF CreateCode
    <3>5. QED BY <3>1, <3>2, <3>3, <3>4
  <2>2. CASE MarkUsed(h) \/ IssueToken(h) \/ PairingFails(h)
    <3>1. work' = work /\ at[h] # "new"
      BY <1>1, <2>2 DEF MarkUsed, IssueToken, PairingFails
    <3>2. QED BY <1>1, <3>1 DEF TypeOK, WorkRecords
  <2>3. QED BY <2>1, <2>2
<1>7. /\ codes' \in [Handlers -> {"absent", "fresh", "used"}]
      /\ \A k \in Handlers : codes'[k] # "absent" => codes[k] # "absent" \/ (k = h /\ at[h] = "new")
      /\ \A k \in Handlers : codes'[k] = "fresh" => codes[k] = "fresh" \/ (k = h /\ at[h] = "new")
  BY <1>1 DEF CreateCode, MarkUsed, IssueToken, PairingFails, TypeOK
<1>8. /\ claims' \subseteq Handlers /\ claims \subseteq claims' /\ claims' \subseteq claims \cup {h}
      /\ h \in claims' => h \in claims \/ (work[h].op = "pair" /\ codes'[work[h].on] # "fresh" /\ at[h] = "read")
  BY <1>1 DEF CreateCode, MarkUsed, IssueToken, PairingFails, TypeOK, Paired
<1>9. /\ got' \in [Handlers -> Handlers \cup {None}] /\ \A k \in Handlers \ {h} : got'[k] = got[k]
      /\ at[h] = "new" => got'[h] = got[h]
  BY <1>1 DEF CreateCode, MarkUsed, IssueToken, PairingFails, TypeOK, Begun, Paired
<1>10. TypeOK'
  BY <1>1, <1>3, <1>4, <1>6, <1>7, <1>8, <1>9 DEF TypeOK, WorkRecords
<1>11. GrantsSound'
  BY <1>1, <1>3, <1>5 DEF FlowSound, GrantsSound, TypeOK
<1>12. ASSUME NEW k \in Handlers PROVE Begun(k)'
  <2>1. CASE k = h
    <3>1. at'[h] = "claimed" => h \in claims'
      BY <1>1, <1>2, <1>4 DEF CreateCode, MarkUsed, IssueToken, PairingFails, Goes, TypeOK
    <3>2. got'[h] # None => at'[h] = "done"
      BY <1>1, <1>4 DEF CreateCode, MarkUsed, IssueToken, PairingFails, Goes, TypeOK, Begun
    <3>3. at'[h] = "claimed" => work'[h].op = "pair"
      BY <1>2, <1>3, <1>4, <1>6
    <3>4. QED BY <1>1, <1>3, <1>4, <1>6, <2>1, <3>1, <3>2, <3>3 DEF Begun
  <2>2. CASE k # h
    BY <1>4, <1>6, <1>8, <1>9, <2>2 DEF Begun, FlowSound
  <2>3. QED BY <2>1, <2>2
<1>13. ASSUME NEW k \in Handlers PROVE Paired(k)'
  <2>1. Paired(k)
    BY DEF FlowSound
  <2>2. codes'[k] # "absent" => at'[k] \in {"granted", "done"}
    BY <1>3, <1>4, <1>5, <1>7, <2>1 DEF Paired
  <2>3. work'[k].op = "pair" => work'[k] = work[k]
    BY <1>6
  <2>4. ASSUME work[k].op = "pair", k \in claims' PROVE codes'[work[k].on] # "fresh"
    <3>1. work[k].on \in Handlers /\ work[k].on # h
      BY <1>5, <2>1, <2>4 DEF Paired
    <3>2. CASE k \in claims
      BY <1>7, <2>1, <2>4, <3>1, <3>2 DEF Paired
    <3>3. CASE k \notin claims
      BY <1>8, <2>4, <3>3
    <3>4. QED BY <3>2, <3>3
  <2>5. work'[k].op = "pair" /\ got'[k] # None => k \in claims'
    <3>1. CASE k = h
      BY <1>1, <1>6, <1>8, <2>3, <3>1
      DEF CreateCode, MarkUsed, IssueToken, PairingFails, TypeOK, Begun, Paired
    <3>2. CASE k # h
      BY <1>8, <1>9, <2>1, <2>3, <3>2 DEF Paired
    <3>3. QED BY <3>1, <3>2
  <2>6. QED BY <1>5, <2>1, <2>2, <2>3, <2>4, <2>5 DEF Paired
<1>14. ASSUME NEW k \in Handlers PROVE Retrieved(k)'
  <2>1. Retrieved(k) /\ Begun(k) /\ work[k].grant \in Handlers \cup {None} /\ work[k].seen \subseteq Handlers
    BY <1>1 DEF FlowSound, TypeOK
  <2>2. CASE k = h
    <3>1. CASE at[h] = "new"
      BY <1>1, <1>3, <1>6, <1>8, <1>9, <2>2, <3>1 DEF Retrieved, Begun
    <3>2. CASE at[h] # "new"
      BY <1>1, <1>3, <1>6, <1>8, <1>9, <2>2, <3>2 DEF Retrieved
    <3>3. QED BY <3>1, <3>2
  <2>3. CASE k # h
    <3>1. work'[k] = work[k] /\ got'[k] = got[k] /\ (k \in claims' <=> k \in claims)
      BY <1>6, <1>8, <1>9, <2>3
    <3>2. ASSUME work[k].op = "retrieve", NEW q \in work[k].seen
          PROVE  /\ q \in claims' \/ at'[q] = "done"
                 /\ q \in claims' /\ work'[q].op = "retrieve" /\ work[k].grant # None => work'[q].grant # work[k].grant
      <4>1. /\ q \in claims \/ at[q] = "done"
            /\ q \in Handlers
            /\ q \in claims /\ work[q].op = "retrieve" /\ work[k].grant # None => work[q].grant # work[k].grant
        BY <2>1, <3>2 DEF Retrieved
      <4>2. work'[q].op = "retrieve" => work'[q] = work[q]
        BY <1>6, <4>1
      <4>3. q \in claims' \/ at'[q] = "done"
        BY <1>5, <1>8, <4>1
      <4>4. q \in claims' /\ work'[q].op = "retrieve" => q \in claims
        BY <1>3, <1>6, <1>8, <4>1
      <4>5. QED BY <4>1, <4>2, <4>3, <4>4
    <3>3. QED BY <1>3, <1>5, <2>1, <3>1, <3>2 DEF Retrieved
  <2>4. QED BY <2>2, <2>3
<1>15. QED BY <1>10, <1>11, <1>12, <1>13, <1>14 DEF FlowSound

LEMMA FlowStep == FlowSound /\ [Next]_vars => FlowSound'
<1> SUFFICES ASSUME FlowSound, [Next]_vars PROVE FlowSound'
  OBVIOUS
<1>1. TypeOK
  BY DEF FlowSound
<1>2. CASE UNCHANGED vars
  <2>1. RowsOnly
    BY <1>1, <1>2 DEF vars, RowsOnly, TypeOK
  <2>2. QED BY <2>1, RowsOnlyKeeps
<1>3. ASSUME NEW r \in Rows, Create(r) PROVE FlowSound'
  <2>1. RowsOnly
    BY <1>1, <1>3 DEF Create, RowsOnly, TypeOK, Statuses
  <2>2. QED BY <2>1, RowsOnlyKeeps
<1>4. ASSUME NEW x \in Rows \cup Handlers, Expire(x) PROVE FlowSound'
  <2>1. RowsOnly
    BY <1>1, <1>4 DEF Expire, RowsOnly, TypeOK
  <2>2. QED BY <2>1, RowsOnlyKeeps
<1>5. CASE CleanupRequests(KeyRows) \/ CleanupRequests(PairRows) \/ CleanupCodes
  <2>1. CASE CleanupCodes
    BY <1>1, <2>1, RowsOnlyKeeps DEF CleanupCodes, RowsOnly, TypeOK
  <2>2. ASSUME NEW table, CleanupRequests(table) PROVE FlowSound'
    BY <1>1, <2>2, RowsOnlyKeeps DEF CleanupRequests, Effective, RowsOnly, TypeOK, Statuses
  <2>3. QED BY <1>5, <2>1, <2>2
<1>6. ASSUME NEW h \in Handlers, NEW r \in Rows, FetchToApprove(h, r) \/ FetchToDeny(h, r) \/ FetchToRetrieve(h, r)
      PROVE  FlowSound'
  <2>1. Effective(r) \in Statuses /\ grant[r] \in Handlers \cup {None}
    BY <1>1 DEF Effective, TypeOK, Statuses
  <2>2. CASE FetchToApprove(h, r)
    BY <2>2, FetchKeeps DEF FetchToApprove, Statuses
  <2>3. CASE FetchToDeny(h, r)
    <3>1. Effective(r) \in {"pending", "expired"}
      BY <2>3 DEF FetchToDeny, Effective
    <3>2. QED BY <2>1, <2>3, <3>1, FetchKeeps DEF FetchToDeny
  <2>4. CASE FetchToRetrieve(h, r)
    BY <2>1, <2>4, FetchKeeps DEF FetchToRetrieve, Statuses
  <2>5. QED BY <1>6, <2>2, <2>3, <2>4
<1>7. ASSUME NEW h \in Handlers, NEW k \in Handlers, FetchToPair(h, k) PROVE FlowSound'
  BY <1>7, FetchKeeps DEF FetchToPair
<1>8. ASSUME NEW h \in Handlers, CreateCredential(h) PROVE FlowSound'
  BY <1>8, DecisionMade DEF CreateCredential
<1>9. ASSUME NEW h \in Handlers, RecordApproval(h) PROVE FlowSound'
  <2>1. PICK g \in {None, h} : grant' = [grant EXCEPT ![work[h].on] = g]
    BY <1>9 DEF RecordApproval
  <2>2. QED BY <1>9, <2>1, DecisionMade DEF RecordApproval
<1>10. ASSUME NEW h \in Handlers, RecordDenial(h) PROVE FlowSound'
  BY <1>10, DecisionMade DEF RecordDenial
<1>11. ASSUME NEW h \in Handlers, DecisionFails(h) PROVE FlowSound'
  BY <1>11, DecisionMade DEF DecisionFails
<1>12. QED
  BY <1>2, <1>3, <1>4, <1>5, <1>6, <1>7, <1>8, <1>9, <1>10, <1>11, RetrievalEnds, PairingMoves
  DEF Next, HandlerStep

----------------------------------------------------------------------------

LEMMA FlowIsSound == Spec => []FlowSound
BY FlowInit, FlowStep, PTL DEF Spec

\* Every column, and what every handler holds of it, has its type in every reachable
\* state.
THEOREM TypeCorrect == Spec => []TypeOK
<1>1. FlowSound => TypeOK
  BY DEF FlowSound
<1>2. QED BY <1>1, FlowIsSound, PTL

\* A credential, or the token of a pairing code, is paid out twice only to handlers
\* that overlapped, or after a retrieval whose UPDATE failed, although every UPDATE
\* is unconditional: whoever reads after a claim was written finds another
\* credential, or none.
THEOREM LatecomersGetNothing == Spec => []SharedOnlyByOverlapOrFailure
<1>1. FlowSound => SharedOnlyByOverlapOrFailure
  <2> SUFFICES ASSUME FlowSound, NEW h \in Handlers, NEW g \in Handlers, Twins(h, g), h \in work[g].seen
               PROVE  Unmarked(h)
    BY DEF SharedOnlyByOverlapOrFailure
  <2>1. got[h] # None /\ got[g] # None /\ got[h] = got[g] /\ (work[h].op = "pair" <=> work[g].op = "pair")
    BY DEF Twins, Pays
  <2>2. Retrieved(h) /\ Retrieved(g) /\ Paired(g)
    BY DEF FlowSound
  <2>3. work[g].op # "pair"
    BY <2>2 DEF Paired
  <2>4. QED BY <2>1, <2>2, <2>3 DEF Retrieved, Unmarked, Pays
<1>2. QED BY <1>1, FlowIsSound, PTL

\* Apart from the legal moves, a row changes only by a handler that had read it in
\* another state than it is in: approvals and denials check the status when they
\* read, and a retrieval that the row was approved.
THEOREM DecisionsAreFinal == Spec => DecisionsStand
<1> DEFINE Moves == \A r \in Rows :
         (status'[r] # status[r] \/ grant'[r] # grant[r]) =>
             \/ <<Effective(r), status'[r]>> \in LegalMoves
             \/ \E h \in Handlers : /\ at[h] # "done" /\ at'[h] = "done"
                                    /\ work[h].on = r /\ work[h].saw # Effective(r)
<1>1. ASSUME FlowSound, [Next]_vars PROVE [Moves]_vars
  <2> SUFFICES ASSUME Next, NEW r \in Rows, status'[r] # status[r] \/ grant'[r] # grant[r]
               PROVE  \/ <<Effective(r), status'[r]>> \in LegalMoves
                      \/ \E h \in Handlers : /\ at[h] # "done" /\ at'[h] = "done"
                                             /\ work[h].on = r /\ work[h].saw # Effective(r)
    BY <1>1
  <2>1. TypeOK
    BY <1>1 DEF FlowSound
  <2>2. CASE \E x \in Rows : Create(x)
    BY <2>1, <2>2 DEF Create, TypeOK, Effective, LegalMoves
  <2>3. ASSUME NEW table, CleanupRequests(table) PROVE <<Effective(r), status'[r]>> \in LegalMoves
    BY <2>1, <2>3 DEF CleanupRequests, TypeOK, Effective, LegalMoves
  <2>4. ASSUME NEW h \in Handlers, RecordApproval(h)
        PROVE  /\ at[h] # "done" /\ at'[h] = "done" /\ work[h].on = r /\ status'[r] = "approved"
               /\ work[h].saw = "pending"
    BY <1>1, <2>1, <2>4 DEF RecordApproval, Goes, TypeOK, FlowSound, Begun
  <2>5. ASSUME NEW h \in Handlers, RecordDenial(h)
        PROVE  /\ at[h] # "done" /\ at'[h] = "done" /\ work[h].on = r /\ status'[r] = "denied"
               /\ work[h].saw \in {"pending", "expired"}
    BY <1>1, <2>1, <2>5 DEF RecordDenial, Goes, TypeOK, FlowSound, Begun
  <2>6. ASSUME NEW h \in Handlers, MarkExchanged(h)
        PROVE  /\ at[h] # "done" /\ at'[h] = "done" /\ work[h].on = r /\ status'[r] = "exchanged"
               /\ work[h].saw = "approved"
    BY <1>1, <2>1, <2>6 DEF MarkExchanged, Goes, TypeOK, FlowSound, Begun
  <2>7. ASSUME NEW h \in Handlers, at[h] # "done", at'[h] = "done", work[h].on = r,
               <<work[h].saw, status'[r]>> \in LegalMoves
        PROVE  \/ <<Effective(r), status'[r]>> \in LegalMoves
               \/ \E g \in Handlers : /\ at[g] # "done" /\ at'[g] = "done"
                                      /\ work[g].on = r /\ work[g].saw # Effective(r)
    BY <2>7
  <2>8. /\ <<"pending", "approved">> \in LegalMoves /\ <<"pending", "denied">> \in LegalMoves
        /\ <<"expired", "denied">> \in LegalMoves /\ <<"approved", "exchanged">> \in LegalMoves
    BY DEF LegalMoves
  <2>9. ASSUME NEW h \in Handlers, HandlerStep(h)
        PROVE  RecordApproval(h) \/ RecordDenial(h) \/ MarkExchanged(h)
    BY <2>9 DEF HandlerStep, FetchToApprove, FetchToDeny, FetchToRetrieve, FetchToPair, Fetch,
                CreateCredential, DecisionFails, CreateCode, MarkUsed, IssueToken, PairingFails
  <2>10. CASE \E h \in Handlers : HandlerStep(h)
    BY <2>4, <2>5, <2>6, <2>7, <2>8, <2>9, <2>10
  <2>11. CASE (\E x \in Rows \cup Handlers : Expire(x)) \/ CleanupCodes
    BY <2>11 DEF Expire, CleanupCodes
  <2>12. QED BY <2>2, <2>3, <2>10, <2>11 DEF Next
<1>2. Spec => []FlowSound
  BY FlowIsSound
<1>3. QED BY <1>1, <1>2, PTL DEF Spec, DecisionsStand
=============================================================================
