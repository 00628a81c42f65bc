SPECIFICATION Spec
CONSTANTS
  Calls = {c1, c2}
  Workers = {w1, w2}
  HttpCallbacks = {FALSE}
INVARIANT
  LateAnswerHarmless
