SPECIFICATION Spec
CONSTANTS
  t1 = t1
  t2 = t2
  SKL = SKL
  ICL = ICL
  code = code
  typo = typo
  h1 = h1
  h2 = h2
  NoText = NoText
  Rejected = Rejected
  None = None
  DefaultArch = SKL
  Archs = {SKL, ICL}
  Assembled <- MCAssembled
  Tabs = {t1, t2}
  PureTabs = {t2}
  Sources = {code, typo, NoText}
  HexTexts = {h1, h2, NoText}
  Analysable = {h1, h2}
  Setups <- MCSetups
INVARIANT PageSound
PROPERTY AnalysisEnds
CHECK_DEADLOCK FALSE
