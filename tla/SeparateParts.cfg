SPECIFICATION Spec
CONSTANTS
  Parts = {"chart", "cells", "events", "page", "logs", "status", "listening", "scan", "collections", "delays", "browser", "colours", "nodes",
           "contents", "ticks", "classes", "lines", "drawing", "cookies", "simple", "settings"}
  ChartKeys = {1, 2}
  YFields = {"y"}
  XValues = {1, 3}
  YValues = {2, 6}
  Sizes = {100, 200}
  MaxPoints = 2
  ChartAvoided = {"incomplete_rows"}
  FadeRows = {1, 2}
  HotColours = {"red"}
  ColdColours = {"grey"}
  ColdToHotTimes = {0, 1}
  HotTimes = {4}
  HotToColdTimes = {0, 2}
  Sliding = {FALSE, TRUE}
  Vias = {"none", "cell"}
  MaxShown = 2
  MaxLost = 1
  FadingAvoided = {"changing_times", "row_style_over_pending", "row_comes_back"}
  Handlers = {a1, a2}
  Users = {p1, p2}
  Synchs = {TRUE, FALSE}
  MaxCalls = 3
  MaxNow = 1
  TouchTimeout = 1
  Step = 1
  EventsAvoided = {"removal_while_dispatched"}
  PageHandlers = {1, 2}
  PageEvents = {"load", "preunload"}
  MaxAdded = 3
  MaxFirings = 2
  PageAvoided = {"adding_before_unload", "removing_while_told"}
  Providers = {p1, p2}
  Categories = {1}
  Appenders = {a1, a2}
  Filters = {0, 2}
  Levels = {1, 4}
  AppenderKinds = {"alert", "buffer"}
  HistoryDim = 1
  MaxLines = 2
  LoggingAvoided = {"shared_appenders"}
  Statuses = {"DISCONNECTED", "CONNECTED:WS-STREAMING", "STALLED"}
  InitialDisplays = {"closed", "open", "dyna"}
  Points = 2
  StatusAvoided = {"removed_before_body", "added_to_bar_again", "open_before_body", "image_added_late"}
  Subs = {s1, s2}
  Modes = {"MERGE", "COMMAND"}
  QueueBound = 2
  ListenAvoided = {"changes_while_told", "positions_unknown"}
  Ids = {1, 2, 3}
  MaxElements = 5
  RetryDelays = {2, 3, 8}
  FirstPauses = {0, 1}
  SameDelays = 2
  LongestDelay = 6
  MaxSince = 9
  PageElements = {1, 2, 3}
  Section = {1, 2}
  Labels = {"foreign", "row1-second", "row2-bare", "item"}
  MaxGiven = 1
  ScanAvoided = {"labels_of_cells"}
  Versions = {9, 12}
  MaxQuestions = 2
  BrowsersAvoided = {"borrowed_words"}
  ColourNames = {"white", "light"}
  Engines = {"modern", "older", "explorer", "explorer9"}
  ColoursAvoided = {"before_body", "bare_cells"}
  DynaKeys = {1, 2, 3}
  ScrollTypes = {"ELEMENT"}
  UpdateIsKey = {TRUE, FALSE}
  NodesAvoided = {"siblings_change", "template_leaves_with_rows", "standards_mode"}
  UsedPlaces = {"shown", "next"}
  ContentKinds = {"content", "style", "form", "attribute"}
  ContentValues = {"plain", "markup", ""}
  ContentsAvoided = {"html_read_back", "missing_attribute_in_fake"}
  Surroundings = {"page","local_page","at_once_page","older_page","worker","node"}
  MaxUrgent = 3
  TicksAvoided = {"post_fails"}
  MethodNames = {"a","b","c"}
  InheritAvoided = {"colliding_methods", "third_names"}
  LineKinds = {"page","console"}
  MaxMessages = 2
  Canvas = {TRUE,FALSE}
  LineSizes = {1,2}
  DrawPlaces = {0,2,5}
  Heights = {6,8}
  MaxDrawn = 3
  DrawingAvoided = {"thick_lines","drawn_out_of_page"}
  CookiePages={1,2}
  CookieNames={"a"}
  CookieValues={"one","two"}
  RandomNumbers={"r1","r2"}
  CookiesAvoided={"same_number","deeper_paths","settings_change"}
  SimpleTaskIds={1,2}
  TaskTimes={1,2}
  MaxWaited=3
  SimpleAvoided={"stops_again"}
  SettingsAvoided={"half_valid"}
SYMMETRY Alike
INVARIANTS ChartAsConfigured CallbacksRunOnce ReportsAgree LoopsAreComplete AttemptsArePaced
PROPERTIES CellsAreRight
CHECK_DEADLOCK FALSE
