---------------------------- MODULE MCSessionImport ----------------------------
EXTENDS SessionImport, TLC

CONSTANTS i1, i2, w1, c1, c2, c3, s1, p1, p2, main, worker, report,
          owner1, other

MCImportTx == {i1, i2}
MCContent == {c1, c2, c3}
MCRaw == {c3}
MCBundle == [tx : MCImportTx, files : MCRaw, notes : MCContent]
  \union {[tx |-> None, files |-> c, notes |-> c] : c \in MCContent \ MCRaw}
MCAsked == {<<i1, c1>>, <<i1, c3>>, <<i2, c1>>, <<i2, c2>>}
MCDigest == MCBundle
MCOwner == MCBundle \union {owner1}
MCSessionOf == [c \in MCContent |-> s1]
MCPilotOf == [c \in MCContent |-> IF c = c1 THEN p1 ELSE p2]
\* The worker's result has the bytes of one of the reports, under another
\* schema: the two threads meet in one payload.
MCShared == [tx |-> None, files |-> c1, notes |-> c1]
MCPut ==
  [thread : {main}, tx : MCImportTx, digest : MCBundle, owner : {None},
   meta : {report}]
  \union {[thread |-> worker, tx |-> w1, digest |-> MCShared,
           owner |-> owner1, meta |-> other]}
================================================================================
