SPECIFICATION Spec
CONSTANTS
  One = 100
  Grain = 10
  NoFOV <- NoAngle
  NullView <- NoView
  LikeResolution = "-Y 1 +X 4"
  Garbage = Garbage
  ByteRange = 4
  MaxData = 2
  MaxComment = 7
  MaxEdits = 2
  r1 = r1
  r2 = r2
  RadiancePicture <- RadiancePictures
  FragileRadiance <- FragileRadiances
  JpegPicture <- JpegPictures
  FragileJpeg <- FragileJpegs
  PngPicture <- PngPictures
  FragilePng <- FragilePngs
INVARIANTS WholeOrRefused ReadBack Settled JpegSuccess OwnProfile OwnComment
