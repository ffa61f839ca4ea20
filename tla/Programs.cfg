SPECIFICATION Spec
CONSTANTS
  f1 = f1
  f2 = f2
  n1 = n1
  n2 = n2
  e1 = e1
  x = x
  y = y
  t1 = t1
  t2 = t2
  t3 = t3
  s1 = s1
  Fresh = Fresh
  None = None
  FactIds <- MCFactIds
  NoteIds <- MCNoteIds
  EpisodeIds <- MCEpisodeIds
  Triples <- MCTriples
  Texts <- MCTexts
  SlotOf <- MCSlotOf
  Refusable <- MCRefusable
  Statements <- MCStatements
  Distillations <- MCDistillations
  MaxTurns = 2
  WriteItems <- MCWriteItems
INVARIANTS  AcceptedIsHeld RestoreComplete DroppedWasHeard
